---- MODULE Spec2Model ----
(***************************************************************************)
(* Verification model of wirecloud/keycloak/social_auth_backend.py:        *)
(*   - KeycloakOpenIdConnect.get_user_details  (specification SpecDetails) *)
(*   - add_user_groups, the post_save receiver (specification SpecSync)    *)
(*   - KeycloakOpenIdConnect.auth_complete_params and the login round-trip *)
(*     it is a hook of                          (specification SpecLogin)  *)
(* Python strings are sequences of one-character strings, so that strip()  *)
(* and lower() are computed and not assumed.  Python dicts are functions   *)
(* whose DOMAIN is the set of keys present.                                *)
(***************************************************************************)
EXTENDS Integers, Sequences, FiniteSets, TLC

VARIABLES
    \* ---- get_user_details ----
    id_token,        \* self.id_token: the decoded claim set (dict)
    response,        \* the userinfo response (dict)
    global_role,     \* settings.SOCIAL_AUTH_KEYCLOAK_OIDC_GLOBAL_ROLE
    details,         \* the dict returned by get_user_details, EmptyDict before the call
    \* ---- configuration, __init__, end_session_url, parse_incomming_data ----
    config,          \* the class attributes URL, REALM and END_SESSION_URL
    discovery,       \* the discovery document, self.oidc_config()
    OIDC_ENDPOINT,   \* self.OIDC_ENDPOINT, Unset before __init__
    end_session,     \* what end_session_url() returned, Unset before the call
    data,            \* the token handed to parse_incomming_data
    jwks,            \* the signing keys the provider publishes
    parsed,          \* outcome of parse_incomming_data, EmptyDict before the call
    \* ---- add_user_groups ----
    social_auth,     \* user -> sequence of linked identities, each with extra_data
    groups,          \* user -> set of primary keys of the groups the user is in
    group_table,     \* the group records: sequence of names, row i has pk i
    lastOp,          \* the last operation performed on the persistence layer
    runs,            \* the add_user_groups calls in progress, step by step
    \* ---- auth_complete_params / login round-trip ----
    phase,           \* position of the login attempt
    session_key,     \* session.session_key of the request's session object
    session_data,    \* the OIDC state stored in the session contents, 0 if none
    cycle_disabled,  \* session.cycle_key and session.flush have been replaced
    client_session_state, \* params["client_session_state"] of the last call
    key_before,      \* session_key held when the last auth_complete_params call began
    calls,           \* auth_complete_params calls made on this session object
    next_state,      \* the next state value begin_auth will generate
    attempt_state,   \* state carried by the callback being handled, 0 if none
    error,           \* error raised by the login attempt, "none" if none
    rotated,         \* auth_complete_params rotated the session in this attempt
    auth_args        \* the dict returned by auth_extra_arguments at redirect time

backendVars == <<config, discovery, OIDC_ENDPOINT, end_session, data, jwks, parsed>>
detailVars == <<id_token, response, global_role, details, backendVars>>
syncVars   == <<social_auth, groups, group_table, lastOp, runs>>
loginVars  == <<phase, session_key, session_data, cycle_disabled,
                client_session_state, key_before, calls, next_state,
                attempt_state, error, rotated, auth_args>>
vars == <<detailVars, syncVars, loginVars>>

(***************************************************************************)
(* Python values                                                           *)
(***************************************************************************)
EmptyDict == [k \in {} |-> k]

\* dict.get(k, default)
Get(d, k, default) == IF k \in DOMAIN d THEN d[k] ELSE default

\* None, a value that is no string (strings hold one-character elements)
None == <<"<None>">>

\* an attribute or a result that has not been assigned yet
Unset == <<"<unset>">>

\* x or ''
OrEmpty_Keep(x) == x
OrEmpty(x) == IF x = None \/ x = <<>> THEN <<>> ELSE x

Whitespace == {" ", "\t", "\n"}

UpperCase == <<"A","B","C","D","E","F","G","H","I","J","K","L","M",
               "N","O","P","Q","R","S","T","U","V","W","X","Y","Z">>
LowerCase == <<"a","b","c","d","e","f","g","h","i","j","k","l","m",
               "n","o","p","q","r","s","t","u","v","w","x","y","z">>

LowerChar(c) ==
    IF \E i \in 1..Len(UpperCase) : UpperCase[i] = c
    THEN LowerCase[CHOOSE i \in 1..Len(UpperCase) : UpperCase[i] = c]
    ELSE c

\* str.lower()
Lower(s) == [i \in 1..Len(s) |-> LowerChar(s[i])]

SetMin(S) == CHOOSE x \in S : \A y \in S : x <= y
SetMax(S) == CHOOSE x \in S : \A y \in S : x >= y

\* str.strip(): drops leading and trailing whitespace, keeps the inside
Strip(s) ==
    LET keep == {i \in 1..Len(s) : s[i] \notin Whitespace}
    IN  IF keep = {} THEN <<>> ELSE SubSeq(s, SetMin(keep), SetMax(keep))

\* role.strip().lower()
NormRoleNoStrip(role) == Lower(role)
NormRoleNoLower(role) == Strip(role)
NormRole(role) == Lower(Strip(role))

\* the literal "admin"
Admin == <<"a","d","m","i","n">>

\* lists of length at most n over S
SeqsUpTo(S, n) == UNION {[1..k -> S] : k \in 0..n}

(***************************************************************************)
(* get_user_details                                                        *)
(***************************************************************************)
\* bound: longest role list carried by a token
MaxTokenRoles == 2

\* role strings a token may carry: "admin", " AdMin\t", "ad min", "Ed "
TokenRoleStrings ==
    { <<"a","d","m","i","n">>,
      <<" ","A","d","M","i","n","\t">>,
      <<"a","d"," ","m","i","n">>,
      <<"E","d"," ">> }

TokenRoleLists == SeqsUpTo(TokenRoleStrings, MaxTokenRoles)

\* a dict that may hold a 'roles' list: realm_access, or one client's entry
RoleHolders == {EmptyDict} \cup {[roles |-> L] : L \in TokenRoleLists}

\* client id returned by get_key_and_secret(), and another client of the realm
ClientId == "app1"
OtherClientId == "app2"

\* entries of the other client
OtherHolders == {EmptyDict, [roles |-> <<Admin>>]}

ResourceAccess ==
    {EmptyDict}
      \cup {[c \in {ClientId} |-> h] : h \in RoleHolders}
      \cup {[c \in {OtherClientId} |-> o] : o \in OtherHolders}
      \cup {[c \in {ClientId, OtherClientId} |-> IF c = ClientId THEN h ELSE o] :
              h \in RoleHolders, o \in OtherHolders}

\* the claim sets self.id_token may hold
Tokens ==
    {EmptyDict}
      \cup {[realm_access |-> h] : h \in RoleHolders}
      \cup {[resource_access |-> r] : r \in ResourceAccess}
      \cup {[realm_access |-> h, resource_access |-> r] :
              h \in RoleHolders, r \in ResourceAccess}

\* self.setting('USERNAME_KEY', default=self.USERNAME_KEY)
UsernameKey == "preferred_username"

\* userinfo responses: nothing at all, every field a string, fields null
Responses ==
    { EmptyDict,
      [preferred_username |-> <<"a","l">>, email |-> <<"a","@","x">>,
       name |-> <<"A"," ","L">>, given_name |-> <<"A">>, family_name |-> <<"L">>],
      [preferred_username |-> <<"b","o">>, email |-> None, name |-> <<>>,
       given_name |-> None] }

\* lines 91-95: the role list the configuration selects
SelectedRolesSwapped(tok, gr) ==
    IF gr
    THEN Get(Get(Get(tok, "resource_access", EmptyDict), ClientId, EmptyDict), "roles", <<>>)
    ELSE Get(Get(tok, "realm_access", EmptyDict), "roles", <<>>)
SelectedRoles(tok, gr) ==
    IF gr
    THEN Get(Get(tok, "realm_access", EmptyDict), "roles", <<>>)
    ELSE Get(Get(Get(tok, "resource_access", EmptyDict), ClientId, EmptyDict), "roles", <<>>)

\* a list without its repeated elements, first occurrences kept
RECURSIVE Dedup(_)
Dedup(seq) ==
    IF seq = <<>> THEN <<>>
    ELSE LET front == Dedup(SubSeq(seq, 1, Len(seq) - 1))
             last == seq[Len(seq)]
         IN  IF \E i \in 1..Len(front) : front[i] = last THEN front
             ELSE Append(front, last)

get_user_details_Dedup(resp, tok, gr) ==
    LET roles == SelectedRoles(tok, gr)
        superuser == \E i \in 1..Len(roles) : NormRole(roles[i]) = Admin
        group_roles == Dedup([i \in 1..Len(roles) |-> NormRole(roles[i])])
    IN  [ username     |-> Get(resp, UsernameKey, None),
          email        |-> OrEmpty(Get(resp, "email", None)),
          fullname     |-> OrEmpty(Get(resp, "name", None)),
          first_name   |-> OrEmpty(Get(resp, "given_name", None)),
          last_name    |-> OrEmpty(Get(resp, "family_name", None)),
          is_superuser |-> superuser,
          is_staff     |-> superuser,
          roles        |-> group_roles ]
\* lines 97-110
get_user_details(resp, tok, gr) ==
    LET roles == SelectedRoles(tok, gr)
        superuser == \E i \in 1..Len(roles) : NormRole(roles[i]) = Admin
        group_roles == [i \in 1..Len(roles) |-> NormRole(roles[i])]
    IN  [ username     |-> Get(resp, UsernameKey, None),
          email        |-> OrEmpty(Get(resp, "email", None)),
          fullname     |-> OrEmpty(Get(resp, "name", None)),
          first_name   |-> OrEmpty(Get(resp, "given_name", None)),
          last_name    |-> OrEmpty(Get(resp, "family_name", None)),
          is_superuser |-> superuser,
          is_staff     |-> superuser,
          roles        |-> group_roles ]

BackendIdle ==
    /\ config = EmptyDict /\ discovery = EmptyDict
    /\ OIDC_ENDPOINT = Unset /\ end_session = Unset
    /\ data = EmptyDict /\ jwks = {} /\ parsed = EmptyDict

DetailsIdle ==
    /\ id_token = EmptyDict /\ response = EmptyDict
    /\ global_role = FALSE /\ details = EmptyDict
    /\ BackendIdle

SyncIdle ==
    /\ social_auth = EmptyDict /\ groups = EmptyDict
    /\ group_table = <<>>
    /\ lastOp = [op |-> "other", user |-> "none", repeat |-> FALSE]
    /\ runs = EmptyDict

LoginIdle ==
    /\ phase = "Idle" /\ session_key = "none" /\ session_data = 0
    /\ cycle_disabled = FALSE /\ client_session_state = "none" /\ key_before = "none"
    /\ calls = 0 /\ next_state = 1 /\ attempt_state = 0
    /\ error = "none" /\ rotated = FALSE /\ auth_args = EmptyDict

InitDetails ==
    /\ id_token \in Tokens
    /\ response \in Responses
    /\ global_role \in BOOLEAN
    /\ details = EmptyDict
    /\ BackendIdle
    /\ SyncIdle /\ LoginIdle

\* one completed login derives the user details once
DeriveUserDetails ==
    /\ details = EmptyDict
    /\ details' = get_user_details(response, id_token, global_role)
    /\ UNCHANGED <<id_token, response, global_role, backendVars, syncVars, loginVars>>

NextDetails == DeriveUserDetails

SpecDetails == InitDetails /\ [][NextDetails]_vars

\* -------- properties of get_user_details --------
derived == details # EmptyDict

\* r is "admin" in any letter case, surrounded by any amount of whitespace
IsAdminSpelling(r) ==
    \E i \in 1..Len(r) :
        /\ i + 4 <= Len(r)
        /\ \A k \in 1..(i-1) : r[k] \in Whitespace
        /\ \A k \in (i+5)..Len(r) : r[k] \in Whitespace
        /\ r[i]   \in {"a","A"} /\ r[i+1] \in {"d","D"} /\ r[i+2] \in {"m","M"}
        /\ r[i+3] \in {"i","I"} /\ r[i+4] \in {"n","N"}

\* C9: is_superuser and is_staff are equal; they are true exactly when some
\* selected role is "admin" up to letter case and surrounding whitespace,
\* and exactly when "admin" is an element of the returned roles list.
C9_SuperuserIffAdmin ==
    derived =>
      LET src == SelectedRoles(id_token, global_role)
      IN  /\ details.is_superuser = details.is_staff
          /\ details.is_superuser <=> (\E i \in 1..Len(src) : IsAdminSpelling(src[i]))
          /\ details.is_superuser <=>
                (\E i \in 1..Len(details.roles) : details.roles[i] = Admin)

\* a token whose only admin role needs both strip() and lower() to be seen
C9_Witness ==
    /\ derived /\ details.is_superuser /\ details.is_staff
    /\ LET src == SelectedRoles(id_token, global_role)
       IN  /\ Len(src) = 2
           /\ \A i \in 1..Len(src) : src[i] # Admin
           /\ \E i \in 1..Len(src) : ~IsAdminSpelling(src[i])

\* the list found by walking the token along the configured path only
RECURSIVE Walk(_, _)
Walk(tok, path) ==
    IF path = <<>> THEN tok
    ELSE IF Head(path) \in DOMAIN tok THEN Walk(tok[Head(path)], Tail(path))
         ELSE <<>>
ConfiguredPath(gr) ==
    IF gr THEN <<"realm_access", "roles">>
          ELSE <<"resource_access", ClientId, "roles">>

\* C10: the roles come from realm_access.roles when global_role is true and
\* from resource_access[client_id].roles when it is false, never from the
\* other path or another client; a missing step gives the empty list and a
\* complete record (no error), and only the selected list grants is_superuser.
C10_RolesFromConfiguredPath ==
    derived =>
      LET src == Walk(id_token, ConfiguredPath(global_role))
      IN  /\ Len(details.roles) = Len(src)
          /\ \A i \in 1..Len(src) : details.roles[i] = Lower(Strip(src[i]))
          /\ details.is_superuser <=> (\E i \in 1..Len(src) : IsAdminSpelling(src[i]))
          /\ DOMAIN details = {"username", "email", "fullname", "first_name",
                               "last_name", "is_superuser", "is_staff", "roles"}

\* the other path and the other client both carry "admin", the selected
\* path is missing, and the result is the empty list without is_superuser
C10_Witness ==
    /\ derived
    /\ ~global_role
    /\ "realm_access" \in DOMAIN id_token
    /\ "roles" \in DOMAIN id_token.realm_access
    /\ \E i \in 1..Len(id_token.realm_access.roles) : id_token.realm_access.roles[i] = Admin
    /\ "resource_access" \in DOMAIN id_token
    /\ DOMAIN id_token.resource_access = {OtherClientId}
    /\ "roles" \in DOMAIN id_token.resource_access[OtherClientId]
    /\ details.roles = <<>>
    /\ ~details.is_superuser

\* c and d are the same letter up to case, d being the lowercase one
IsLowerOf(d, c) ==
    \/ (d = c /\ \A i \in 1..Len(UpperCase) : UpperCase[i] # c)
    \/ \E i \in 1..Len(UpperCase) : UpperCase[i] = c /\ LowerCase[i] = d

\* r is s without its surrounding whitespace, letter by letter in lowercase
IsNormalisedFormOf(r, s) ==
    /\ \A k \in 1..Len(r) : \A i \in 1..Len(UpperCase) : r[k] # UpperCase[i]
    /\ Len(r) > 0 => (r[1] \notin Whitespace /\ r[Len(r)] \notin Whitespace)
    /\ \E off \in 0..Len(s) :
          /\ off + Len(r) <= Len(s)
          /\ \A k \in 1..off : s[k] \in Whitespace
          /\ \A k \in (off + Len(r) + 1)..Len(s) : s[k] \in Whitespace
          /\ \A k \in 1..Len(r) : IsLowerOf(r[k], s[off + k])

\* C11: the returned roles list has the length and the order of the selected
\* list, element i being element i of the source lowercased and trimmed;
\* repeated roles are kept.
C11_RolesNormalisedInOrder ==
    derived =>
      LET src == SelectedRoles(id_token, global_role)
      IN  /\ Len(details.roles) = Len(src)
          /\ \A i \in 1..Len(src) : IsNormalisedFormOf(details.roles[i], src[i])

\* two spellings of one role give the same name twice
C11_Witness ==
    /\ derived
    /\ LET src == SelectedRoles(id_token, global_role)
       IN  /\ Len(src) = 2
           /\ src[1] # src[2]
           /\ src[2] = Admin
    /\ details.roles = <<Admin, Admin>>

\* -------- get_user_details over every shape of the userinfo response --------
UserinfoFields == {UsernameKey, "email", "name", "given_name", "family_name"}

\* a field of the response: null, the empty string or a string
FieldValues == {None, <<>>, <<"x">>}

\* every response: each field absent or present with one of the values
AllResponses == UNION {[D -> FieldValues] : D \in SUBSET UserinfoFields}

InitUserinfo ==
    /\ id_token \in {EmptyDict, [realm_access |-> [roles |-> <<Admin>>]]}
    /\ response \in AllResponses
    /\ global_role \in BOOLEAN
    /\ details = EmptyDict
    /\ BackendIdle
    /\ SyncIdle /\ LoginIdle

SpecUserinfo == InitUserinfo /\ [][NextDetails]_vars

\* the field of the record filled from each field of the response
DetailOf ==
    [email |-> "email", name |-> "fullname",
     given_name |-> "first_name", family_name |-> "last_name"]

\* C16: email, fullname, first_name and last_name are strings, empty when the
\* field of the response is absent or null and the field itself otherwise;
\* username is the value under the username key; the record is complete for
\* every response (no missing-key error).
C16_NameFieldsDefaultToEmpty ==
    derived =>
        /\ DOMAIN details = {"username", "email", "fullname", "first_name",
                             "last_name", "is_superuser", "is_staff", "roles"}
        /\ \A f \in DOMAIN DetailOf :
              /\ details[DetailOf[f]] # None
              /\ (f \notin DOMAIN response => details[DetailOf[f]] = <<>>)
              /\ (f \in DOMAIN response /\ response[f] = None => details[DetailOf[f]] = <<>>)
              /\ (f \in DOMAIN response /\ response[f] # None
                     => details[DetailOf[f]] = response[f])
        /\ UsernameKey \in DOMAIN response => details.username = response[UsernameKey]

\* a response with an absent field, a null field and a filled field
C16_Witness ==
    /\ derived
    /\ "email" \notin DOMAIN response
    /\ "name" \in DOMAIN response /\ response["name"] = None
    /\ "family_name" \in DOMAIN response /\ response["family_name"] = <<"x">>
    /\ UsernameKey \in DOMAIN response /\ response[UsernameKey] = <<"x">>
    /\ details.email = <<>> /\ details.fullname = <<>>
    /\ details.last_name = <<"x">> /\ details.username = <<"x">>

(***************************************************************************)
(* add_user_groups, the receiver of post_save on the user model            *)
(***************************************************************************)
Users == {"u1", "u2"}

\* bound: longest role list stored in an identity's extra_data
MaxRoles == 2
\* the users who log in through an identity provider during the run; the
\* other users are saved (profile edits) but their identities do not change
LoginUsers == {"u1"}
\* social-auth backends an account can be linked through, one identity each:
\* this backend (name, line 41) and another one
Keycloak == "keycloak_oidc"
Providers == {Keycloak, "fiware"}

\* role strings stored by a login: "admin", " AdMin\t", "Ed "
SyncRoleStrings ==
    { <<"a","d","m","i","n">>,
      <<" ","A","d","M","i","n","\t">>,
      <<"E","d"," ">> }

\* extra_data this backend stores in its identities: with or without 'roles'
ExtraData == {EmptyDict} \cup {[roles |-> L] : L \in SeqsUpTo(SyncRoleStrings, MaxRoles)}

\* extra_data of an identity linked through the other backend
OtherExtraData ==
    {EmptyDict, [roles |-> << <<"a","d","m","i","n">> >>], [roles |-> << <<"E","d"," ">> >>]}

DataOf(provider) == IF provider = Keycloak THEN ExtraData ELSE OtherExtraData

\* a group that exists before any login
Staff == <<"s","t","a","f","f">>

\* line 129: group_model.objects.get_or_create(name=...)
get_or_create_AlwaysCreate(tbl, name) ==
    [pk |-> Len(tbl) + 1, table |-> Append(tbl, name), created |-> TRUE]
get_or_create(tbl, name) ==
    IF \E i \in 1..Len(tbl) : tbl[i] = name
    THEN [pk |-> CHOOSE i \in 1..Len(tbl) : tbl[i] = name, table |-> tbl, created |-> FALSE]
    ELSE [pk |-> Len(tbl) + 1, table |-> Append(tbl, name), created |-> TRUE]

\* lines 127-130: the loop over social.extra_data['roles']
RECURSIVE AddRoles(_, _, _, _)
AddRoles(roles, gs, tbl, instance) ==
    IF roles = <<>> THEN [groups |-> gs, table |-> tbl]
    ELSE LET got == get_or_create(tbl, NormRole(Head(roles)))
         IN  AddRoles(Tail(roles), [gs EXCEPT ![instance] = @ \cup {got.pk}],
                      got.table, instance)

\* lines 119-130
add_user_groups_NoClear(sa, gs, tbl, instance, created) ==
    IF Len(sa[instance]) > 0
    THEN LET social == sa[instance][1]
         IN  IF "roles" \in DOMAIN social.extra_data
             THEN AddRoles(social.extra_data.roles, gs, tbl, instance)
             ELSE [groups |-> gs, table |-> tbl]
    ELSE [groups |-> gs, table |-> tbl]
add_user_groups_ClearFirst(sa, gs, tbl, instance, created) ==
    LET cleared == [gs EXCEPT ![instance] = {}]
    IN  IF Len(sa[instance]) > 0
        THEN LET social == sa[instance][1]
             IN  IF "roles" \in DOMAIN social.extra_data
                 THEN AddRoles(social.extra_data.roles, cleared, tbl, instance)
                 ELSE [groups |-> cleared, table |-> tbl]
        ELSE [groups |-> cleared, table |-> tbl]
add_user_groups_ClearOnlyWithRoles(sa, gs, tbl, instance, created) ==
    IF Len(sa[instance]) > 0
    THEN LET social == sa[instance][1]
             cleared == [gs EXCEPT ![instance] = {}]
         IN  IF "roles" \in DOMAIN social.extra_data /\ social.extra_data.roles # <<>>
             THEN AddRoles(social.extra_data.roles, cleared, tbl, instance)
             ELSE [groups |-> gs, table |-> tbl]
    ELSE [groups |-> gs, table |-> tbl]
add_user_groups_ClearEveryone(sa, gs, tbl, instance, created) ==
    IF Len(sa[instance]) > 0
    THEN LET social == sa[instance][1]
             cleared == [u \in DOMAIN gs |-> {}]
         IN  IF "roles" \in DOMAIN social.extra_data
             THEN AddRoles(social.extra_data.roles, cleared, tbl, instance)
             ELSE [groups |-> cleared, table |-> tbl]
    ELSE [groups |-> gs, table |-> tbl]
add_user_groups(sa, gs, tbl, instance, created) ==
    IF Len(sa[instance]) > 0
    THEN LET social == sa[instance][1]
             cleared == [gs EXCEPT ![instance] = {}]
         IN  IF "roles" \in DOMAIN social.extra_data
             THEN AddRoles(social.extra_data.roles, cleared, tbl, instance)
             ELSE [groups |-> cleared, table |-> tbl]
    ELSE [groups |-> gs, table |-> tbl]

Other == [op |-> "other", user |-> "none", repeat |-> FALSE]

\* u1 has not logged in yet; u2 logged in once, with the role "Ed ", and has
\* not been saved since; an administrator may have put either in "staff"
InitSync ==
    /\ social_auth = [u \in Users |->
                        IF u \in LoginUsers THEN <<>>
                        ELSE <<[provider |-> Keycloak,
                                extra_data |-> [roles |-> << <<"E","d"," ">> >>]]>>]
    /\ group_table = <<Staff>>
    /\ groups \in [Users -> SUBSET {1}]
    /\ lastOp = Other
    /\ runs = EmptyDict
    /\ DetailsIdle /\ LoginIdle

\* an external identity is linked to the user (first login of that identity)
Link(u, p, ed) ==
    /\ u \in LoginUsers
    /\ \A i \in 1..Len(social_auth[u]) : social_auth[u][i].provider # p
    /\ ed \in DataOf(p)
    /\ social_auth' = [social_auth EXCEPT ![u] = Append(@, [provider |-> p, extra_data |-> ed])]
    /\ lastOp' = Other
    /\ UNCHANGED <<groups, group_table, runs, detailVars, loginVars>>

\* a login stores the EXTRA_DATA of lines 49-57, 'roles' among them
StoreExtraData(u, i, ed) ==
    /\ u \in LoginUsers
    /\ i \in 1..Len(social_auth[u])
    /\ ed \in DataOf(social_auth[u][i].provider)
    /\ social_auth[u][i].extra_data # ed
    /\ social_auth' = [social_auth EXCEPT ![u][i].extra_data = ed]
    /\ lastOp' = Other
    /\ UNCHANGED <<groups, group_table, runs, detailVars, loginVars>>

\* the user is saved: post_save calls add_user_groups(sender, instance, created)
Save(u, created) ==
    /\ LET r == add_user_groups(social_auth, groups, group_table, u, created)
       IN  /\ groups' = r.groups
           /\ group_table' = r.table
    /\ lastOp' = [op |-> "save", user |-> u,
                  repeat |-> (lastOp.op = "save" /\ lastOp.user = u)]
    /\ UNCHANGED <<social_auth, runs, detailVars, loginVars>>

NextSync ==
    \/ \E u \in Users, p \in Providers, ed \in ExtraData \cup OtherExtraData : Link(u, p, ed)
    \/ \E u \in Users, i \in 1..Cardinality(Providers), ed \in ExtraData \cup OtherExtraData :
          StoreExtraData(u, i, ed)
    \/ \E u \in Users, created \in BOOLEAN : Save(u, created)

SpecSync == InitSync /\ [][NextSync]_vars

\* -------- properties of add_user_groups --------
GroupNames(u) == {group_table[g] : g \in groups[u] \cap DOMAIN group_table}

\* the roles stored in an identity, none when the key is absent
StoredRoles(identity) ==
    IF "roles" \in DOMAIN identity.extra_data THEN identity.extra_data.roles ELSE <<>>

RoleNames(identity) ==
    {Lower(Strip(StoredRoles(identity)[i])) : i \in 1..Len(StoredRoles(identity))}

\* C1: right after a run of add_user_groups for a user with a linked identity,
\* the user's groups are exactly the lowercased, trimmed roles of the first
\* linked identity: nothing stale, nothing from another identity.
C1_GroupsEqualFirstIdentityRoles ==
    (lastOp.op = "save" /\ Len(social_auth[lastOp.user]) > 0) =>
        /\ groups[lastOp.user] \subseteq DOMAIN group_table
        /\ GroupNames(lastOp.user) = RoleNames(social_auth[lastOp.user][1])

\* the user has two identities with different roles, and a role group exists
\* that nobody is in any more
C1_Witness ==
    /\ lastOp.op = "save"
    /\ Len(social_auth[lastOp.user]) = 2
    /\ RoleNames(social_auth[lastOp.user][1]) # {}
    /\ RoleNames(social_auth[lastOp.user][2]) # {}
    /\ RoleNames(social_auth[lastOp.user][1]) \cap RoleNames(social_auth[lastOp.user][2]) = {}
    /\ GroupNames(lastOp.user) = RoleNames(social_auth[lastOp.user][1])
    /\ \E i \in DOMAIN group_table :
          /\ group_table[i] # Staff
          /\ \A u \in Users : i \notin groups[u]

\* C2: a run of add_user_groups that directly follows a run for the same user
\* (same stored roles) changes neither any membership nor the group records.
C2_Idempotent ==
    [][ (lastOp.op = "save" /\ lastOp'.op = "save" /\ lastOp'.user = lastOp.user)
          => (groups' = groups /\ group_table' = group_table) ]_vars

\* a second run in a row, over a list with two spellings of one role
C2_Witness ==
    /\ lastOp.op = "save" /\ lastOp.repeat
    /\ Len(social_auth[lastOp.user]) > 0
    /\ LET R == StoredRoles(social_auth[lastOp.user][1])
       IN  /\ Len(R) = 2
           /\ R[1] # R[2]
           /\ Lower(Strip(R[1])) = Lower(Strip(R[2]))
    /\ Cardinality(groups[lastOp.user]) = 1

\* C3: a save of a user without linked identities changes no membership of
\* any user and no group record.
C3_NoIdentityNoMutation ==
    [][ (lastOp'.op = "save" /\ Len(social_auth[lastOp'.user]) = 0)
          => (groups' = groups /\ group_table' = group_table) ]_vars

\* a user without identities was saved and still is in a group, while the
\* other user has role groups
C3_Witness ==
    /\ lastOp.op = "save"
    /\ Len(social_auth[lastOp.user]) = 0
    /\ groups[lastOp.user] # {}
    /\ \E v \in Users \ {lastOp.user} : GroupNames(v) \ {Staff} # {}

\* C18: when the first linked identity stores no roles (no 'roles' key, or an
\* empty list), a run of add_user_groups leaves the user without any group
\* and creates no group record.
C18_ClearIsUnconditional ==
    [][ (lastOp'.op = "save"
           /\ Len(social_auth[lastOp'.user]) > 0
           /\ StoredRoles(social_auth[lastOp'.user][1]) = <<>>)
          => (groups'[lastOp'.user] = {} /\ group_table' = group_table) ]_vars

\* the first identity has no 'roles' key, another identity has roles, the
\* user is in no group and the role groups of earlier runs are still there
C18_Witness ==
    /\ lastOp.op = "save"
    /\ Len(social_auth[lastOp.user]) = 2
    /\ "roles" \notin DOMAIN social_auth[lastOp.user][1].extra_data
    /\ RoleNames(social_auth[lastOp.user][2]) # {}
    /\ groups[lastOp.user] = {}
    /\ Len(group_table) = 3

\* C19: a run of add_user_groups for one user changes the memberships of no
\* other user; no step ever removes or renames a group record, and every
\* record a run creates has a lowercase, trimmed name.
C19_OtherUsersAndRecordsKept ==
    [][ /\ Len(group_table') >= Len(group_table)
        /\ \A i \in 1..Len(group_table) : group_table'[i] = group_table[i]
        /\ \A i \in (Len(group_table) + 1)..Len(group_table') :
              IsNormalisedFormOf(group_table'[i], group_table'[i])
        /\ lastOp'.op = "save" =>
              \A v \in Users \ {lastOp'.user} : groups'[v] = groups[v] ]_vars

\* a run created role groups while the other user kept the groups it was in
C19_Witness ==
    /\ lastOp.op = "save"
    /\ Len(social_auth[lastOp.user]) > 0
    /\ Cardinality(groups[lastOp.user]) = 2
    /\ Len(group_table) = 3
    /\ \E v \in Users \ {lastOp.user} : groups[v] = {1}

(***************************************************************************)
(* auth_complete_params, auth_extra_arguments and the login round-trip     *)
(* that calls them.  The session object lives for one request; the         *)
(* attributes assigned in lines 73-74 live as long as that object.         *)
(***************************************************************************)
\* bound: begin_auth calls in a run
MaxAttempts == 2
\* bound: auth_complete_params calls on one session object
MaxCalls == 2

SessionKeys == {"k1", "k2", "k3"}
\* session.session_key of a session that has no key (None)
NoKey == "none"

Languages == {"en", "es"}
\* what the inherited auth_extra_arguments returns: nothing (None or {}, both
\* falsy, so that "or {}" gives the empty dict) or the configured arguments
BaseArguments == {EmptyDict, [prompt |-> "login"]}

\* lines 80-83
auth_extra_arguments(base, language) ==
    LET params == IF DOMAIN base = {} THEN EmptyDict ELSE base
    IN  [k \in DOMAIN params \cup {"kc_locale"} |->
            IF k = "kc_locale" THEN language ELSE params[k]]

\* line 71: session.cycle_key() is looked up on the session object, so it is
\* the replacement of line 73 once that has been assigned
RotatedKey_NoCycle(key, disabled, newkey) == key
RotatedKey(key, disabled, newkey) == IF disabled THEN key ELSE newkey

\* lines 73-74: cycle_key and flush are replaced on the session object
LockEngaged_Never(disabled) == disabled
LockEngaged(disabled) == TRUE

\* session.flush(): the key is dropped, unless flush is session.clear (line 74)
FlushedKey_NotReplaced(key, disabled) == NoKey
FlushedKey(key, disabled) == IF disabled THEN key ELSE NoKey

\* lines 67-78; newkey is the key a real cycle_key would generate, was_rotated
\* tells whether an earlier call of this attempt rotated the session
auth_complete_params(newkey, was_rotated) ==
    /\ key_before' = session_key
    /\ session_key' = RotatedKey(session_key, cycle_disabled, newkey)
    /\ cycle_disabled' = LockEngaged(cycle_disabled)
    /\ client_session_state' = session_key'
    /\ rotated' = (was_rotated \/ session_key' # session_key)
    /\ calls' = calls + 1

\* the state check of the OIDC library on a callback
validate_state_PresenceOnly(request_state, stored) ==
    IF request_state = 0 \/ stored = 0 THEN "InvalidStateError" ELSE "ok"
validate_state(request_state, stored) ==
    IF request_state = 0 \/ stored = 0 \/ request_state # stored
    THEN "InvalidStateError" ELSE "ok"

InitLogin ==
    /\ LoginIdle
    /\ DetailsIdle
    /\ social_auth = EmptyDict /\ groups = EmptyDict
    /\ group_table = <<>> /\ lastOp = Other /\ runs = EmptyDict

\* begin_auth: a fresh state is stored in the session and the redirect is
\* built with the extra arguments
BeginAuth(base, language) ==
    /\ phase \in {"Idle", "AwaitingCallback"}
    /\ next_state <= MaxAttempts
    /\ session_data' = next_state
    /\ next_state' = next_state + 1
    /\ auth_args' = auth_extra_arguments(base, language)
    /\ phase' = "Redirecting"
    /\ attempt_state' = 0 /\ error' = "none" /\ rotated' = FALSE
    /\ UNCHANGED <<session_key, cycle_disabled, client_session_state, key_before,
                   calls, detailVars, syncVars>>

\* the redirect is sent: the request ends, the session is saved under a key
\* and the session object is dropped
Redirect(newkey) ==
    /\ phase = "Redirecting"
    /\ phase' = "AwaitingCallback"
    /\ session_key' = IF session_key = NoKey THEN newkey ELSE session_key
    /\ cycle_disabled' = FALSE /\ calls' = 0
    /\ UNCHANGED <<session_data, client_session_state, key_before, next_state,
                   attempt_state, error, rotated, auth_args, detailVars, syncVars>>

\* a callback carrying state s arrives: the state is checked, and the token
\* request is built with auth_complete_params(state)
Callback(s, newkey) ==
    /\ phase \in {"Idle", "AwaitingCallback"}
    /\ attempt_state' = s
    /\ IF validate_state(s, session_data) = "ok"
       THEN /\ auth_complete_params(newkey, FALSE)
            /\ phase' = "Completing"
            /\ error' = "none"
       ELSE /\ phase' = "Failed"
            /\ error' = validate_state(s, session_data)
            /\ rotated' = FALSE
            /\ UNCHANGED <<session_key, cycle_disabled, client_session_state,
                           key_before, calls>>
    /\ UNCHANGED <<session_data, next_state, auth_args, detailVars, syncVars>>

\* auth_complete_params is called again on the same session object
AuthCompleteParamsAgain(newkey) ==
    /\ phase = "Completing"
    /\ calls < MaxCalls
    /\ auth_complete_params(newkey, rotated)
    /\ UNCHANGED <<phase, session_data, next_state, attempt_state, error,
                   auth_args, detailVars, syncVars>>

\* the claims are decoded and the user details derived
Complete ==
    /\ phase = "Completing"
    /\ phase' = "Completed"
    /\ UNCHANGED <<session_key, session_data, cycle_disabled, client_session_state,
                   key_before, calls, next_state, attempt_state, error, rotated,
                   auth_args, detailVars, syncVars>>

\* decoding the claims fails
Fail ==
    /\ phase = "Completing"
    /\ phase' = "Failed"
    /\ error' = "MalformedTokenError"
    /\ UNCHANGED <<session_key, session_data, cycle_disabled, client_session_state,
                   key_before, calls, next_state, attempt_state, rotated,
                   auth_args, detailVars, syncVars>>

\* the framework calls session.cycle_key() (login of the same user)
CycleKey(newkey) ==
    /\ session_key' = RotatedKey(session_key, cycle_disabled, newkey)
    /\ UNCHANGED <<phase, session_data, cycle_disabled, client_session_state,
                   key_before, calls, next_state, attempt_state, error, rotated,
                   auth_args, detailVars, syncVars>>

\* the framework calls session.flush() (logout, login of another user)
Flush ==
    /\ session_data' = 0
    /\ session_key' = FlushedKey(session_key, cycle_disabled)
    /\ UNCHANGED <<phase, cycle_disabled, client_session_state, key_before, calls,
                   next_state, attempt_state, error, rotated, auth_args,
                   detailVars, syncVars>>

\* the callback request ends: the session object is dropped, the next request
\* builds a new one
EndRequest ==
    /\ phase \in {"Completed", "Failed"}
    /\ phase' = "Idle"
    /\ cycle_disabled' = FALSE /\ calls' = 0
    /\ UNCHANGED <<session_key, session_data, client_session_state, key_before,
                   next_state, attempt_state, error, rotated, auth_args,
                   detailVars, syncVars>>

NextLogin ==
    \/ \E base \in BaseArguments, language \in Languages : BeginAuth(base, language)
    \/ \E k \in SessionKeys \ {session_key} : Redirect(k)
    \/ \E s \in 1..MaxAttempts, k \in SessionKeys \ {session_key} : Callback(s, k)
    \/ \E k \in SessionKeys \ {session_key} : AuthCompleteParamsAgain(k)
    \/ Complete
    \/ Fail
    \/ \E k \in SessionKeys \ {session_key} : CycleKey(k)
    \/ Flush
    \/ EndRequest

SpecLogin == InitLogin /\ [][NextLogin]_vars

\* -------- properties of the login round-trip --------

\* C4: every call of auth_complete_params returns, as client_session_state,
\* an identifier different from the one the session held before the call,
\* a second call on the same session object included.
C4_EveryCallRotates ==
    calls > 0 => client_session_state # key_before

\* C5 as stated: in Completed and in Failed the normal cycle_key and flush
\* are back on the session.
C5_ReleasedAtTerminalState ==
    phase \in {"Completed", "Failed"} => ~cycle_disabled

\* C5, amended: the replacement of cycle_key and flush is not undone by the
\* login attempt.  In Completed, and in Failed once auth_complete_params has
\* run, it is still in place; while it is in place no step changes the
\* identifier; it goes away only with the session object, when the request
\* ends.
C5_LockOutlivesAttempt ==
    /\ [](phase = "Completed" => cycle_disabled)
    /\ []((phase = "Failed" /\ calls > 0) => cycle_disabled)
    /\ [][(cycle_disabled /\ cycle_disabled') => session_key' = session_key]_vars
    /\ [][(cycle_disabled /\ ~cycle_disabled') =>
            (phase \in {"Completed", "Failed"} /\ phase' = "Idle")]_vars

\* the attempt failed after auth_complete_params had run, the replacement is
\* still in place and the identifier is the one sent to the provider
C5_Witness ==
    /\ phase = "Failed" /\ error = "MalformedTokenError"
    /\ calls > 0 /\ cycle_disabled
    /\ session_key = client_session_state
    /\ session_key # key_before

\* C6: while cycle_key and flush are replaced, the session identifier is the
\* client_session_state of the outgoing parameters, whatever cycle_key and
\* flush calls have been made; a flush empties the contents only.
C6_KeyStaysWhileLocked ==
    cycle_disabled =>
        /\ session_key = client_session_state
        /\ session_key \in SessionKeys

\* locked, flushed (the stored state is gone) and the identifier is intact
C6_Witness ==
    /\ cycle_disabled
    /\ phase = "Completed"
    /\ session_data = 0
    /\ session_key = client_session_state
    /\ session_key # key_before

\* C7 as stated: the attempt waits for the callback with the session already
\* rotated by this handler and the lock engaged.
C7_RotatedAtRedirect ==
    phase = "AwaitingCallback" => (rotated /\ cycle_disabled)

\* C7, amended: the session is rotated and the lock engaged when the
\* parameters of the token request are built, at callback time; no run is in
\* Completing or Completed unless the callback carried a state issued by a
\* begin_auth (so it passed through Redirecting) and the session was rotated
\* and locked by this handler.
C7_RotatedBeforeCompleting ==
    phase \in {"Completing", "Completed"} =>
        /\ attempt_state \in 1..(next_state - 1)
        /\ rotated /\ cycle_disabled
        /\ calls > 0
        /\ session_key = client_session_state

\* claims decoded after a rotation at callback time
C7_Witness ==
    /\ phase = "Completed"
    /\ rotated /\ cycle_disabled
    /\ calls = 1
    /\ session_key # key_before
    /\ key_before \in SessionKeys
    /\ auth_args # EmptyDict

\* C8: a callback whose state is not the one of the latest begin_auth (a
\* stale state, or one never issued) fails with InvalidStateError and is
\* never in Completing or Completed.
C8_StaleStateFails ==
    (attempt_state # 0 /\ attempt_state # next_state - 1) =>
        /\ phase \in {"Failed", "Idle"}
        /\ error = "InvalidStateError"
        /\ ~rotated

\* two begin_auth calls, then the callback of the first one
C8_Witness ==
    /\ next_state = 3
    /\ attempt_state = 1
    /\ session_data = 2
    /\ phase = "Failed"
    /\ error = "InvalidStateError"

(***************************************************************************)
(* add_user_groups step by step: two calls in progress at the same time,   *)
(* each at its own line of the function.  get_or_create is one step (the   *)
(* persistence layer makes it atomic).                                     *)
(***************************************************************************)
Runs == {"r1", "r2"}

\* bound: longest role list stored while calls are in progress
MaxRaceRoles == 2

\* role strings stored for u1: "admin", " eD" (u2 holds "Ed ")
RaceRoleStrings ==
    { <<"a","d","m","i","n">>,
      <<" ","e","D">> }

RaceExtraData ==
    {EmptyDict} \cup {[roles |-> L] : L \in SeqsUpTo(RaceRoleStrings, MaxRaceRoles)}

\* line 123: instance.groups.clear()
ClearGroups_Nothing(gs, instance) == gs
ClearGroups(gs, instance) == [gs EXCEPT ![instance] = {}]

\* line 130: instance.groups.add(role_group)
AddGroup(gs, instance, pk) == [gs EXCEPT ![instance] = @ \cup {pk}]

\* the first run is a save of u1, the second a save of either user; both
\* users have a linked identity and are in "staff"
InitRace ==
    /\ \E ed \in RaceExtraData :
         social_auth = [u \in Users |->
            IF u \in LoginUsers
            THEN <<[provider |-> Keycloak, extra_data |-> ed]>>
            ELSE <<[provider |-> Keycloak,
                    extra_data |-> [roles |-> << <<"E","d"," ">> >>]]>>]
    /\ group_table = <<Staff>>
    /\ groups = [u \in Users |-> {1}]
    /\ lastOp = Other
    /\ \E u \in Users :
         runs = [r \in Runs |->
                   [user |-> IF r = "r1" THEN "u1" ELSE u, pc |-> "start",
                    read |-> <<>>, todo |-> <<>>, role_group |-> 0,
                    cleared_last |-> FALSE]]
    /\ DetailsIdle /\ LoginIdle

\* lines 120-121: the count is checked and the first identity loaded
RunStart(r) ==
    /\ runs[r].pc = "start"
    /\ LET sa == social_auth[runs[r].user]
       IN  IF Len(sa) > 0
           THEN LET social == sa[1]
                    roles == IF "roles" \in DOMAIN social.extra_data
                             THEN social.extra_data.roles ELSE <<>>
                IN  runs' = [runs EXCEPT ![r].pc = "clear",
                                         ![r].read = roles, ![r].todo = roles]
           ELSE runs' = [runs EXCEPT ![r].pc = "done"]
    /\ UNCHANGED <<social_auth, groups, group_table, lastOp, detailVars, loginVars>>

\* line 123, then lines 126-127 enter the loop or end the call
RunClear(r) ==
    /\ runs[r].pc = "clear"
    /\ groups' = ClearGroups(groups, runs[r].user)
    /\ runs' = [q \in Runs |->
                  IF q = r
                  THEN [runs[q] EXCEPT !.pc = IF runs[q].todo = <<>> THEN "done" ELSE "get",
                                       !.cleared_last = TRUE]
                  ELSE IF runs[q].user = runs[r].user
                       THEN [runs[q] EXCEPT !.cleared_last = FALSE]
                       ELSE runs[q]]
    /\ UNCHANGED <<social_auth, group_table, lastOp, detailVars, loginVars>>

\* line 129
RunGetOrCreate(r) ==
    /\ runs[r].pc = "get"
    /\ LET got == get_or_create(group_table, NormRole(Head(runs[r].todo)))
       IN  /\ group_table' = got.table
           /\ runs' = [runs EXCEPT ![r].pc = "add", ![r].role_group = got.pk]
    /\ UNCHANGED <<social_auth, groups, lastOp, detailVars, loginVars>>

\* line 130, then the next role of the loop
RunAdd(r) ==
    /\ runs[r].pc = "add"
    /\ groups' = AddGroup(groups, runs[r].user, runs[r].role_group)
    /\ runs' = [runs EXCEPT ![r].todo = Tail(@),
                            ![r].pc = IF Tail(runs[r].todo) = <<>> THEN "done" ELSE "get"]
    /\ UNCHANGED <<social_auth, group_table, lastOp, detailVars, loginVars>>

\* a login of the user stores new extra_data while calls are in progress
RaceLogin(u, ed) ==
    /\ u \in LoginUsers
    /\ social_auth[u][1].extra_data # ed
    /\ social_auth' = [social_auth EXCEPT ![u][1].extra_data = ed]
    /\ UNCHANGED <<groups, group_table, lastOp, runs, detailVars, loginVars>>

NextRace ==
    \/ \E r \in Runs : RunStart(r)
    \/ \E r \in Runs : RunClear(r)
    \/ \E r \in Runs : RunGetOrCreate(r)
    \/ \E r \in Runs : RunAdd(r)
    \/ \E u \in Users, ed \in RaceExtraData : RaceLogin(u, ed)

SpecRace == InitRace /\ [][NextRace]_vars

\* -------- properties of interleaved add_user_groups calls --------
AllDone == \A r \in Runs : runs[r].pc = "done"

\* the normalised names of the roles a call has read
RunNames(r) == {Lower(Strip(runs[r].read[i])) : i \in 1..Len(runs[r].read)}

\* C12: no state holds two group records of one name; when the calls of two
\* different users that carry a common role name have ended, exactly one
\* record of that name exists and both users are members of it.
C12_OneGroupPerName ==
    /\ \A i, j \in DOMAIN group_table : group_table[i] = group_table[j] => i = j
    /\ (AllDone /\ runs["r1"].user # runs["r2"].user) =>
          \A n \in RunNames("r1") \cap RunNames("r2") :
              /\ Cardinality({i \in DOMAIN group_table : group_table[i] = n}) = 1
              /\ \E i \in DOMAIN group_table :
                    /\ group_table[i] = n
                    /\ i \in groups[runs["r1"].user] \cap groups[runs["r2"].user]

\* two users, one role name spelled differently, the group did not exist
C12_Witness ==
    /\ AllDone
    /\ runs["r1"].user # runs["r2"].user
    /\ runs["r1"].read # runs["r2"].read
    /\ RunNames("r1") \cap RunNames("r2") # {}
    /\ groups["u1"] = groups["u2"]
    /\ Cardinality(groups["u1"]) = 1
    /\ Len(group_table) = 2

\* C20: when two calls for the same user have ended, the user's groups are
\* among the roles read by the two calls and contain every role of the call
\* that cleared last.
C20_SameUserRace ==
    (AllDone /\ runs["r1"].user = runs["r2"].user) =>
        LET u == runs["r1"].user
        IN  /\ groups[u] \subseteq DOMAIN group_table
            /\ GroupNames(u) \subseteq RunNames("r1") \cup RunNames("r2")
            /\ \A r \in Runs : runs[r].cleared_last => RunNames(r) \subseteq GroupNames(u)

\* the final groups are the roles of neither call
C20_Witness ==
    /\ AllDone
    /\ runs["r1"].user = runs["r2"].user
    /\ \E r \in Runs : runs[r].cleared_last
    /\ GroupNames(runs["r1"].user) # RunNames("r1")
    /\ GroupNames(runs["r1"].user) # RunNames("r2")

\* ======================================================================
\* Configuration: __init__ (OIDC_ENDPOINT) and end_session_url
\* ======================================================================

MaxPathSegments == 2

\* scheme and authority of the configured server
Origins == { <<"h","t","t","p","s",":","/","/","k","c">> }

\* path segments of the configured URL: none of them is empty, "." or ".."
Segments == { <<"a","u","t","h">>, <<"v","2">> }

Realms == { <<"c","o","r","p">>, <<"d","e","m","o">> }

RECURSIVE JoinPath(_)
JoinPath(segs) ==
    IF segs = <<>> THEN <<>>
    ELSE <<"/">> \o Head(segs) \o JoinPath(Tail(segs))

\* values of the URL setting: unset (the empty string), a bare origin, an
\* origin with a path, each with and without a trailing slash
BaseUrls ==
    {<<>>} \cup
    { o \o JoinPath(p) \o t : o \in Origins,
                              p \in SeqsUpTo(Segments, MaxPathSegments),
                              t \in {<<>>, <<"/">>} }

\* KEYCLOAK_OIDC_ENDPOINT.format(realm)
KEYCLOAK_OIDC_ENDPOINT(realm) == <<"r","e","a","l","m","s","/">> \o realm

\* position of the first character of the authority, 0 without "://"
AuthorityStart(url) ==
    LET marks == {i \in 1..(Len(url) - 2) :
                     url[i] = ":" /\ url[i+1] = "/" /\ url[i+2] = "/"}
    IN  IF marks = {} THEN 0 ELSE SetMin(marks) + 3

\* positions of the "/" characters of the path of url
PathSlashes(url) ==
    IF AuthorityStart(url) = 0 THEN {}
    ELSE {j \in AuthorityStart(url)..Len(url) : url[j] = "/"}

\* urllib.parse.urljoin(base, rel) for a relative reference rel made of plain
\* path segments: an empty base gives rel; a base without a path gets "/"
\* and rel; otherwise the last segment of the base path is replaced by rel
\* (everything after the last "/" of the base is dropped)
urljoin(base, rel) ==
    IF base = <<>> THEN rel
    ELSE IF PathSlashes(base) = {} THEN base \o <<"/">> \o rel
    ELSE SubSeq(base, 1, SetMax(PathSlashes(base))) \o rel

\* __init__: self.OIDC_ENDPOINT
KeycloakOpenIdConnect_init(cfg) ==
    urljoin(cfg.URL, KEYCLOAK_OIDC_ENDPOINT(cfg.REALM))

LogoutUrls == { <<"h","t","t","p","s",":","/","/","k","c","/","o","u","t">> }

\* END_SESSION_URL: '' unless a deployment overrides the class attribute
EndSessionOverrides == {<<>>} \cup { u \o <<"2">> : u \in LogoutUrls }

\* discovery documents: without end_session_endpoint, with one, with an
\* empty one
DiscoveryDocuments ==
    { EmptyDict,
      [issuer |-> <<"k","c">>],
      [issuer |-> <<"k","c">>, end_session_endpoint |-> <<>>] }
    \cup { [issuer |-> <<"k","c">>, end_session_endpoint |-> u] : u \in LogoutUrls }

end_session_url_EmptyDefault(cfg, doc) ==
    IF cfg.END_SESSION_URL # <<>> THEN cfg.END_SESSION_URL
    ELSE Get(doc, "end_session_endpoint", <<>>)

\* end_session_url: END_SESSION_URL or oidc_config().get('end_session_endpoint')
end_session_url(cfg, doc) ==
    IF cfg.END_SESSION_URL # <<>> THEN cfg.END_SESSION_URL
    ELSE Get(doc, "end_session_endpoint", None)

InitConfig ==
    /\ config \in [URL : BaseUrls, REALM : Realms, END_SESSION_URL : EndSessionOverrides]
    /\ discovery \in DiscoveryDocuments
    /\ OIDC_ENDPOINT = Unset /\ end_session = Unset
    /\ data = EmptyDict /\ jwks = {} /\ parsed = EmptyDict
    /\ id_token = EmptyDict /\ response = EmptyDict
    /\ global_role = FALSE /\ details = EmptyDict
    /\ SyncIdle /\ LoginIdle

\* the backend object is built
Construct ==
    /\ OIDC_ENDPOINT = Unset
    /\ OIDC_ENDPOINT' = KeycloakOpenIdConnect_init(config)
    /\ UNCHANGED <<config, discovery, end_session, data, jwks, parsed>>
    /\ UNCHANGED <<id_token, response, global_role, details, syncVars, loginVars>>

\* a logout asks the backend for the end-session URL
EndSessionUrl ==
    /\ OIDC_ENDPOINT # Unset
    /\ end_session = Unset
    /\ end_session' = end_session_url(config, discovery)
    /\ UNCHANGED <<config, discovery, OIDC_ENDPOINT, data, jwks, parsed>>
    /\ UNCHANGED <<id_token, response, global_role, details, syncVars, loginVars>>

NextConfig == Construct \/ EndSessionUrl

SpecConfig == InitConfig /\ [][NextConfig]_vars

IsPrefix(p, s) == Len(p) <= Len(s) /\ SubSeq(s, 1, Len(p)) = p

EndsWithSlash(url) == url # <<>> /\ url[Len(url)] = "/"

ConfigurationError == <<"<ConfigurationError>">>

OverridePresent == config.END_SESSION_URL # <<>>

DiscoveryPresent == "end_session_endpoint" \in DOMAIN discovery

\* C13 as stated: end_session_url returns the configured override when it is
\* not empty, otherwise the end_session_endpoint of the discovery document,
\* and fails with ConfigurationError when neither is present.
C13_FailsWhenNeitherPresent ==
    end_session # Unset =>
        /\ OverridePresent => end_session = config.END_SESSION_URL
        /\ ~OverridePresent /\ DiscoveryPresent =>
               end_session = discovery["end_session_endpoint"]
        /\ ~OverridePresent /\ ~DiscoveryPresent =>
               end_session = ConfigurationError

\* C13 amended: end_session_url returns the configured override when it is
\* not empty, otherwise the end_session_endpoint of the discovery document
\* as it stands there; when the document has no such entry the call returns
\* None, raises nothing and makes up no URL.
C13_NoneWhenNeitherPresent ==
    end_session # Unset =>
        /\ OverridePresent => end_session = config.END_SESSION_URL
        /\ ~OverridePresent /\ DiscoveryPresent =>
               end_session = discovery["end_session_endpoint"]
        /\ ~OverridePresent /\ ~DiscoveryPresent => end_session = None

C13_Witness ==
    /\ end_session = None
    /\ ~OverridePresent /\ ~DiscoveryPresent

\* C15: the endpoint is the base URL joined with "realms/<realm>": for a
\* base URL ending in "/" it is the base URL followed by realms/<realm>, and
\* for every base URL, with or without a trailing slash or a path, the whole
\* base URL is a prefix of the endpoint.
C15_BaseIsPrefixOfEndpoint ==
    OIDC_ENDPOINT # Unset =>
        /\ EndsWithSlash(config.URL) =>
               OIDC_ENDPOINT = config.URL \o KEYCLOAK_OIDC_ENDPOINT(config.REALM)
        /\ IsPrefix(config.URL, OIDC_ENDPOINT)

\* ======================================================================
\* parse_incomming_data: key lookup and claims decoding
\* ======================================================================

KeyIds == {"k1", "k2"}

\* a published signing key, as the JWKS document lists it
PublishedKey(kid) == [kid |-> kid, alg |-> "RS256"]

\* the key sets the provider may publish
JwkSets == { {}, {PublishedKey("k1")}, {PublishedKey(k) : k \in KeyIds} }

\* no key: find_valid_key returned None
NoKeyFound == EmptyDict

\* shapes of the incoming data: a signed JSON structure, data whose header
\* cannot be read, data whose header is readable and whose payload is not
TokenShapes == {"jws", "bad_header", "bad_payload"}

\* the claim sets an incoming token may carry
DecodedClaimSets ==
    { EmptyDict,
      [realm_access |-> [roles |-> << <<" ","A","d","M","i","n","\t">> >>]],
      [realm_access |-> [roles |-> << <<"E","d"," ">> >>]],
      [resource_access |-> [c \in {ClientId} |-> [roles |-> <<Admin>>]]] }

\* incoming tokens: forged tells whether the signature was made without the
\* private key of the key the header names
IncomingTokens ==
    [shape : TokenShapes, kid : KeyIds, claims : DecodedClaimSets, forged : BOOLEAN]

NoClaims == EmptyDict

\* self.find_valid_key(data): the key whose identifier the token header names,
\* None when the provider publishes no such key; unreadable headers raise
find_valid_key(d, keys) ==
    IF d.shape = "bad_header"
    THEN [raised |-> TRUE, key |-> NoKeyFound]
    ELSE IF \E k \in keys : k.kid = d.kid
         THEN [raised |-> FALSE, key |-> CHOOSE k \in keys : k.kid = d.kid]
         ELSE [raised |-> FALSE, key |-> NoKeyFound]

\* jwt.decode(data, pem, algorithms=..., options={"verify": verify}): the
\* claims of a well-formed token; the signature counts only when verify is on
jwt_decode(d, key, verify) ==
    IF d.shape # "jws" THEN [raised |-> TRUE, claims |-> NoClaims]
    ELSE IF verify /\ d.forged THEN [raised |-> TRUE, claims |-> NoClaims]
    ELSE [raised |-> FALSE, claims |-> d.claims]

\* line 115: options={"verify": False}
options_verify_On == TRUE
options_verify == FALSE

\* the outcome of one call: how it ended, the claims it returned, and how
\* often it looked up a key and decoded
Raised(lookups, decodes) ==
    [status |-> "MalformedTokenError", claims |-> NoClaims,
     lookups |-> lookups, decodes |-> decodes]

Returned(claims, lookups, decodes) ==
    [status |-> "ok", claims |-> claims, lookups |-> lookups, decodes |-> decodes]

parse_incomming_data_Swallow(d, keys) ==
    LET found == find_valid_key(d, keys)
    IN  IF found.raised \/ found.key = NoKeyFound THEN Returned(NoClaims, 1, 0)
        ELSE LET out == jwt_decode(d, found.key, options_verify)
             IN  Returned(out.claims, 1, 1)

\* parse_incomming_data: one key lookup; jwk.construct(None) and key['alg']
\* raise without a key; one decode; nothing is caught
parse_incomming_data(d, keys) ==
    LET found == find_valid_key(d, keys)
    IN  IF found.raised THEN Raised(1, 0)
        ELSE IF found.key = NoKeyFound THEN Raised(1, 0)
        ELSE LET out == jwt_decode(d, found.key, options_verify)
             IN  IF out.raised THEN Raised(1, 1)
                 ELSE Returned(out.claims, 1, 1)

DecodeResponse ==
    [preferred_username |-> <<"a","l">>, email |-> <<"a","@","x">>]

InitDecode ==
    /\ data \in IncomingTokens
    /\ jwks \in JwkSets
    /\ parsed = EmptyDict
    /\ config = EmptyDict /\ discovery = EmptyDict
    /\ OIDC_ENDPOINT = Unset /\ end_session = Unset
    /\ id_token = EmptyDict /\ response = DecodeResponse
    /\ global_role \in BOOLEAN /\ details = EmptyDict
    /\ SyncIdle /\ LoginIdle

\* the incoming token is decoded
ParseIncomingData ==
    /\ parsed = EmptyDict
    /\ parsed' = parse_incomming_data(data, jwks)
    /\ UNCHANGED <<config, discovery, OIDC_ENDPOINT, end_session, data, jwks>>
    /\ UNCHANGED <<id_token, response, global_role, details, syncVars, loginVars>>

\* the decoded claims become the id token the user details are derived from
DeriveFromDecoded ==
    /\ parsed # EmptyDict /\ parsed.status = "ok"
    /\ details = EmptyDict
    /\ id_token' = parsed.claims
    /\ details' = get_user_details(response, parsed.claims, global_role)
    /\ UNCHANGED <<response, global_role, backendVars, syncVars, loginVars>>

NextDecode == ParseIncomingData \/ DeriveFromDecoded

SpecDecode == InitDecode /\ [][NextDecode]_vars

decoded == parsed # EmptyDict

KeyPublished == \E k \in jwks : k.kid = data.kid

\* C14: parse_incomming_data fails with MalformedTokenError when no
\* published key matches the token or the token cannot be parsed; the call
\* looks up the key at most once and decodes at most once, returns no claims
\* on failure and swallows no error.
C14_FailsOnFirstAttempt ==
    decoded =>
        /\ parsed.lookups <= 1 /\ parsed.decodes <= 1
        /\ (~KeyPublished \/ data.shape # "jws") =>
               /\ parsed.status = "MalformedTokenError"
               /\ parsed.claims = NoClaims
        /\ (KeyPublished /\ data.shape = "jws") => parsed.status = "ok"

C14_Witness ==
    /\ decoded /\ parsed.status = "MalformedTokenError"
    /\ data.shape = "jws" /\ ~KeyPublished
    /\ data.claims # NoClaims

\* the token that differs from data in its signature only
Twin == [data EXCEPT !.forged = ~@]

====
